---- MODULE Spec2Model ----
(***************************************************************************)
(* The DiffEdit workflow facade of diff_edit/model/diff_edit_model.py:     *)
(* the session object (six components and a device), the files of the      *)
(* working directories, and the facade operations create_mask, save_mask,  *)
(* save_inpainted_image, load_mask, inpaint_mask_with_prompt and           *)
(* demo_diffedit.  Images are uninterpreted terms (tuples headed by a tag) *)
(* so that two images are equal exactly when they were built the same way. *)
(* The collaborators ImageProcessor, MaskGenerator and Inpainter are       *)
(* imported by the facade and modelled from their contracts.               *)
(***************************************************************************)
EXTENDS Integers, Sequences, FiniteSets, TLC

VARIABLES
    obj,      \* the DiffEdit object of the running process, or NoObject
    mg,       \* mask_generator.processed_mask / .rough_mask
    fs,       \* the files of the working directories
    faults,   \* interruptions of a write so far
    saved,    \* history: per working directory, its most recent save_mask
    last      \* history: the most recent call, its arguments and outcome

vars == <<obj, mg, fs, faults, saved, last>>

\* ------------------------------------------------------------ bounds

\* interrupted writes (crash, I/O failure) in one behaviour
MaxFaults == 2


\* ------------------------------------------------------------ values

\* None as a component or a device, and as an image
None == "None"
NoImage == <<"None">>
\* no DiffEdit object (none built yet, or the construction raised)
NoObject == [constructed |-> FALSE]

Devices == {"cpu", "cuda"}

\* source images a caller may name; only the first exists
ExistingPaths == {"dog.jpg"}
ImagePaths == ExistingPaths \cup {"missing.jpg"}

\* the seed of the end-to-end scenario and another one
Seeds == {42, 7}
P1s == {"dog"}
P2s == {"cat"}
\* the iteration count of the end-to-end scenario
Iterations == {2}

WorkDirs == {"./", "out"}
MaskFiles == <<"mask.bmp", "rough_mask.bmp", "blended_mask.bmp">>
SavedFiles == MaskFiles \o <<"original_image.bmp">>
InpaintedFile == "inpainted_image.bmp"
FileNames == {SavedFiles[i] : i \in 1..Len(SavedFiles)} \cup {InpaintedFile}

\* file contents: no file, a file opened for writing whose image was not
\* (completely) written, or a complete bitmap of an image
Absent == <<"absent">>
Truncated == <<"truncated">>
Enc(im) == <<"bmp", im>>
Dec(content) == content[2]
IsBitmap(content) == content[1] = "bmp"

\* ------------------------------------------------------------ statuses

OK == "ok"
PathNotFound == "ValueError: image path does not exist"
ArtifactsNotFound == "ValueError: mask files not found"
ImageError == "OSError: cannot read image"
NoneError == "TypeError: component is None"
SourceNotFound == "FileNotFoundError: no such image file"
AttributeError == "AttributeError: None has no attribute to"
Interrupted == "interrupted"

\* ------------------------------------------------------------ PIL, os

exists(im_path) == im_path \in ExistingPaths
Open(im_path) == <<"src", im_path>>
Resize(im) == <<"resized", im>>
file_exists(f, workdir, name) == f[workdir][name] # Absent

\* ------------------------------------------------------------ collaborators

img2latent(im) == <<"latent", im>>
get_blended_mask(im, mask) == <<"blended", im, mask>>

\* MaskGenerator.calc_diffedit_mask: the generator derives its noise from
\* seed, leaves the two masks in its fields and returns the processed one
calc_diffedit_mask(im_latent, p1, p2, n, seed) ==
    LET processed == <<"processed", im_latent, p1, p2, n, seed>>
        rough == <<"rough", im_latent, p1, p2, n, seed>>
    IN  [processed_mask |-> processed, rough_mask |-> rough, ret |-> processed]

\* Inpainter.inpaint_mask
inpaint_mask(im, mask, p2, seed) == <<"inpainted", im, mask, p2, seed>>

\* ------------------------------------------------------------ the object

\* a component is None, a plain object (tokenizer, scheduler) or a torch
\* module, which is the name of the device it is on; module.to(device)
\* returns the module on that device, and to(None) leaves it where it is
Loaded == "cpu"
Plain == "object"
ModuleTo(c, device) == IF device = None THEN c ELSE device

\* to() passing over the components that are None
to_skip_none(o, device) ==
    LET move(c) == IF c = None THEN None ELSE ModuleTo(c, device)
    IN  [status |-> OK,
         obj |-> [o EXCEPT !.vae = move(o.vae), !.text_encoder = move(o.text_encoder),
                           !.unet = move(o.unet), !.inpainting = move(o.inpainting)]]

\* DiffEdit.to: moves vae, text_encoder, unet and inpainting, in this order
to(o, device) ==
    IF None \in {o.vae, o.text_encoder, o.unet, o.inpainting}
    THEN [status |-> AttributeError, obj |-> o]
    ELSE [status |-> OK,
          obj |-> [o EXCEPT !.vae = ModuleTo(o.vae, device),
                            !.text_encoder = ModuleTo(o.text_encoder, device),
                            !.unet = ModuleTo(o.unet, device),
                            !.inpainting = ModuleTo(o.inpainting, device)]]

\* MaskGenerator.__init__ and the other collaborators' constructors keep what
\* they are given and do not fail on a missing component
collaborators_init(o) == OK

\* DiffEdit.__init__: stores the six components as given (each defaults to
\* None), calls self.to(torch_device) and builds the collaborators
DiffEdit_init(tokenizer, text_encoder, vae, unet, inpainting, scheduler, torch_device) ==
    LET stored == [tokenizer |-> tokenizer, text_encoder |-> text_encoder, vae |-> vae,
                   unet |-> unet, inpainting |-> inpainting, scheduler |-> scheduler,
                   torch_device |-> torch_device]
        moved == to(stored, torch_device)
    IN  IF moved.status # OK THEN [status |-> moved.status, obj |-> NoObject]
        ELSE [status |-> collaborators_init(moved.obj), obj |-> moved.obj]

\* ModelComposer.compose(): every component loaded, then DiffEdit(...)
compose(torch_device) ==
    DiffEdit_init(Plain, Loaded, Loaded, Loaded, Loaded, Plain, torch_device).obj

\* ------------------------------------------------------------ the facade

NoCalls == <<>>
NoEngine == <<>>
NoReturn == <<>>

\* st_mg: the generator's fields when the call starts
\* the generator needs its tokenizer and scheduler at first use
generator_usable(o) == o.tokenizer # None /\ o.scheduler # None

\* get_mask handing back the fields the generator held before the call
get_mask_stale(o, st_mg, im_path, p1, p2, seed, n) ==
    LET im == Resize(Open(im_path))
    IN  [status |-> OK,
         ret |-> <<st_mg.processed_mask, st_mg.rough_mask,
                   get_blended_mask(im, st_mg.processed_mask)>>,
         mg |-> LET g == calc_diffedit_mask(img2latent(im), p1, p2, n, seed)
                IN  [processed_mask |-> g.processed_mask, rough_mask |-> g.rough_mask],
         calls |-> <<"img2latent", "calc_diffedit_mask", "get_blended_mask">>]

\* DiffEdit.get_mask(im_path, p1, p2, seed, n)
get_mask(o, st_mg, im_path, p1, p2, seed, n) ==
    LET im == Resize(Open(im_path))
        im_latent == img2latent(im)
        g == calc_diffedit_mask(im_latent, p1, p2, n, seed)
    IN  IF ~generator_usable(o)
        THEN [status |-> NoneError, ret |-> NoReturn, mg |-> st_mg,
              calls |-> <<"img2latent", "calc_diffedit_mask">>]
        ELSE [status |-> OK,
              ret |-> <<g.processed_mask, g.rough_mask, get_blended_mask(im, g.ret)>>,
              mg |-> [processed_mask |-> g.processed_mask, rough_mask |-> g.rough_mask],
              calls |-> <<"img2latent", "calc_diffedit_mask", "get_blended_mask">>]

\* create_mask without its check of the path
create_mask_unchecked(o, st_mg, im_path, p1, p2, n, seed) ==
    get_mask(o, st_mg, im_path, p1, p2, seed, n)

\* DiffEdit.create_mask(im_path, p1, p2, n, seed)
create_mask(o, st_mg, im_path, p1, p2, n, seed) ==
    IF ~exists(im_path)
    THEN [status |-> PathNotFound, ret |-> NoReturn, mg |-> st_mg,
          calls |-> NoCalls]
    ELSE get_mask(o, st_mg, im_path, p1, p2, seed, n)

Min(a, b) == IF a < b THEN a ELSE b

\* A write of k files takes 2k steps: file i is opened for writing (created
\* or emptied) at step 2i-1 and holds its image after step 2i.
StepsOf(files) == 2 * Len(files)

\* the directory after the first `done` steps of writing `contents` to `files`
write_steps(dir, files, contents, done) ==
    [name \in FileNames |->
        IF \E i \in 1..Len(files) : files[i] = name /\ done >= 2 * i
        THEN contents[CHOOSE i \in 1..Len(files) : files[i] = name]
        ELSE IF \E i \in 1..Len(files) : files[i] = name /\ done = 2 * i - 1
        THEN Truncated
        ELSE dir[name]]

\* save_mask opening the source image before it writes anything
save_mask_source_first(f, mask, rough_mask, blended_mask, im_path, workdir, cut) ==
    LET contents == <<Enc(mask), Enc(rough_mask), Enc(blended_mask), Enc(Resize(Open(im_path)))>>
        done == IF exists(im_path) THEN cut ELSE 0
    IN  [status |-> IF ~exists(im_path) THEN SourceNotFound
                    ELSE IF cut < StepsOf(SavedFiles) THEN Interrupted ELSE OK,
         done |-> done,
         fs |-> [f EXCEPT ![workdir] = write_steps(f[workdir], SavedFiles, contents, done)]]

\* save_mask writing to the current directory whatever workdir it is given
save_mask_cwd(f, mask, rough_mask, blended_mask, im_path, workdir, cut) ==
    LET contents == <<Enc(mask), Enc(rough_mask), Enc(blended_mask), Enc(Resize(Open(im_path)))>>
        done == IF exists(im_path) THEN cut ELSE Min(cut, StepsOf(SavedFiles) - 1)
    IN  [status |-> IF cut < StepsOf(SavedFiles) THEN Interrupted
                    ELSE IF exists(im_path) THEN OK ELSE SourceNotFound,
         done |-> done,
         fs |-> [f EXCEPT !["./"] = write_steps(f["./"], SavedFiles, contents, done)]]

\* DiffEdit.save_mask(mask, rough_mask, blended_mask, im_path, workdir),
\* stopped after `cut` steps (StepsOf(SavedFiles): not stopped).  The source
\* image is opened after original_image.bmp was opened for writing.
save_mask(f, mask, rough_mask, blended_mask, im_path, workdir, cut) ==
    LET contents == <<Enc(mask), Enc(rough_mask), Enc(blended_mask), Enc(Resize(Open(im_path)))>>
        done == IF exists(im_path) THEN cut ELSE Min(cut, StepsOf(SavedFiles) - 1)
    IN  [status |-> IF cut < StepsOf(SavedFiles) THEN Interrupted
                    ELSE IF exists(im_path) THEN OK ELSE SourceNotFound,
         done |-> done,
         fs |-> [f EXCEPT ![workdir] = write_steps(f[workdir], SavedFiles, contents, done)]]

\* DiffEdit.save_inpainted_image(inpainted_image, workdir)
save_inpainted_image(f, inpainted_image, workdir, cut) ==
    [status |-> IF cut < StepsOf(<<InpaintedFile>>) THEN Interrupted ELSE OK,
     done |-> cut,
     fs |-> [f EXCEPT ![workdir] =
                write_steps(f[workdir], <<InpaintedFile>>, <<Enc(inpainted_image)>>, cut)]]

\* load_mask asking for original_image.bmp too
load_mask_all_four(f, workdir) ==
    IF \E i \in 1..Len(SavedFiles) : ~file_exists(f, workdir, SavedFiles[i])
    THEN [status |-> ArtifactsNotFound, ret |-> NoReturn]
    ELSE IF \E i \in 1..Len(MaskFiles) : ~IsBitmap(f[workdir][MaskFiles[i]])
    THEN [status |-> ImageError, ret |-> NoReturn]
    ELSE [status |-> OK, ret |-> [i \in 1..Len(MaskFiles) |-> Dec(f[workdir][MaskFiles[i]])]]

\* load_mask reading the rough mask into the first slot
load_mask_swapped(f, workdir) ==
    IF \E i \in 1..Len(MaskFiles) : ~file_exists(f, workdir, MaskFiles[i])
    THEN [status |-> ArtifactsNotFound, ret |-> NoReturn]
    ELSE IF \E i \in 1..Len(MaskFiles) : ~IsBitmap(f[workdir][MaskFiles[i]])
    THEN [status |-> ImageError, ret |-> NoReturn]
    ELSE [status |-> OK,
          ret |-> <<Dec(f[workdir]["rough_mask.bmp"]), Dec(f[workdir]["mask.bmp"]),
                    Dec(f[workdir]["blended_mask.bmp"])>>]

\* DiffEdit.load_mask(workdir)
load_mask(f, workdir) ==
    LET mask_path == f[workdir]["mask.bmp"]
        rough_mask_path == f[workdir]["rough_mask.bmp"]
        blended_mask_path == f[workdir]["blended_mask.bmp"]
    IN  IF ~(file_exists(f, workdir, "mask.bmp") /\ file_exists(f, workdir, "rough_mask.bmp")
             /\ file_exists(f, workdir, "blended_mask.bmp"))
        THEN [status |-> ArtifactsNotFound, ret |-> NoReturn]
        ELSE IF ~(IsBitmap(mask_path) /\ IsBitmap(rough_mask_path) /\ IsBitmap(blended_mask_path))
        THEN [status |-> ImageError, ret |-> NoReturn]
        ELSE [status |-> OK, ret |-> <<Dec(mask_path), Dec(rough_mask_path), Dec(blended_mask_path)>>]

\* inpaint_mask_with_prompt without its check of the path
inpaint_mask_with_prompt_unchecked(im_path, mask, p2, seed) ==
    LET im == Resize(Open(im_path))
    IN  [status |-> OK, ret |-> inpaint_mask(im, mask, p2, seed),
         engine |-> <<im, mask, p2, seed>>, calls |-> <<"inpaint_mask">>]

\* DiffEdit.inpaint_mask_with_prompt(im_path, mask, p2, seed)
inpaint_mask_with_prompt(im_path, mask, p2, seed) ==
    IF ~exists(im_path)
    THEN [status |-> PathNotFound, ret |-> NoReturn, engine |-> NoEngine, calls |-> NoCalls]
    ELSE LET im == Resize(Open(im_path))
         IN  [status |-> OK, ret |-> inpaint_mask(im, mask, p2, seed),
              engine |-> <<im, mask, p2, seed>>, calls |-> <<"inpaint_mask">>]

\* demo_diffedit inpainting with the mask create_mask returned, nothing saved
demo_diffedit_unsaved(o, st_mg, f, im_path, p1, p2, n, seed, cut1, cut2) ==
    LET c == create_mask(o, st_mg, im_path, p1, p2, n, seed)
        not_saving == [status |-> "none", done |-> 0, triple |-> <<>>]
    IN  IF c.status # OK
        THEN [status |-> c.status, ret |-> NoReturn, mg |-> c.mg, fs |-> f,
              engine |-> NoEngine, calls |-> NoCalls, saving |-> FALSE, save |-> not_saving]
        ELSE LET i == inpaint_mask_with_prompt(im_path, c.ret[1], p2, seed)
             IN  [status |-> OK, ret |-> <<Resize(Open(im_path)), c.ret[3], i.ret>>,
                  mg |-> c.mg, fs |-> f, engine |-> i.engine,
                  calls |-> <<"create_mask">> \o c.calls
                                \o <<"inpaint_mask_with_prompt">> \o i.calls,
                  saving |-> FALSE, save |-> not_saving]

\* DiffEdit.demo_diffedit(im_path, p1, p2, n, seed); save_mask stopped after
\* cut1 steps and save_inpainted_image after cut2.  Every file goes to "./".
\* An exception of a step ends the call there.
demo_diffedit(o, st_mg, f, im_path, p1, p2, n, seed, cut1, cut2) ==
    LET im == Resize(Open(im_path))
        c == create_mask(o, st_mg, im_path, p1, p2, n, seed)
        s == save_mask(f, c.ret[1], c.ret[2], c.ret[3], im_path, "./", cut1)
        l == load_mask(s.fs, "./")
        i == inpaint_mask_with_prompt(im_path, l.ret[1], p2, seed)
        w == save_inpainted_image(s.fs, i.ret, "./", cut2)
        c_calls == <<"create_mask">> \o c.calls
        s_calls == c_calls \o <<"save_mask">>
        l_calls == s_calls \o <<"load_mask">>
        i_calls == l_calls \o <<"inpaint_mask_with_prompt">> \o i.calls
        w_calls == i_calls \o <<"save_inpainted_image">>
        not_saving == [status |-> "none", done |-> 0, triple |-> <<>>]
        saving == [status |-> s.status, done |-> s.done, triple |-> c.ret]
    IN  IF ~exists(im_path)
        THEN [status |-> PathNotFound, ret |-> NoReturn, mg |-> st_mg, fs |-> f,
              engine |-> NoEngine, calls |-> NoCalls, saving |-> FALSE, save |-> not_saving]
        ELSE IF c.status # OK
        THEN [status |-> c.status, ret |-> NoReturn, mg |-> c.mg, fs |-> f,
              engine |-> NoEngine, calls |-> c_calls, saving |-> FALSE, save |-> not_saving]
        ELSE IF s.status # OK
        THEN [status |-> s.status, ret |-> NoReturn, mg |-> c.mg, fs |-> s.fs,
              engine |-> NoEngine, calls |-> s_calls, saving |-> TRUE, save |-> saving]
        ELSE IF l.status # OK
        THEN [status |-> l.status, ret |-> NoReturn, mg |-> c.mg, fs |-> s.fs,
              engine |-> NoEngine, calls |-> l_calls, saving |-> TRUE, save |-> saving]
        ELSE IF i.status # OK
        THEN [status |-> i.status, ret |-> NoReturn, mg |-> c.mg, fs |-> s.fs,
              engine |-> i.engine, calls |-> i_calls, saving |-> TRUE, save |-> saving]
        ELSE IF w.status # OK
        THEN [status |-> w.status, ret |-> NoReturn, mg |-> c.mg, fs |-> w.fs,
              engine |-> i.engine, calls |-> w_calls, saving |-> TRUE, save |-> saving]
        ELSE [status |-> OK, ret |-> <<im, c.ret[3], i.ret>>, mg |-> c.mg, fs |-> w.fs,
              engine |-> i.engine, calls |-> w_calls, saving |-> TRUE, save |-> saving]

\* ------------------------------------------------------------ inputs

NoMasks == [processed_mask |-> NoImage, rough_mask |-> NoImage]

\* what create_mask hands back for the existing images with seeds from
\* `seeds`: the triples and masks a caller holds and may save or inpaint with
MaskTriples(seeds) ==
    {get_mask(compose("cpu"), NoMasks, p, p1, p2, seed, n).ret :
        <<p, p1, p2, n, seed>> \in ExistingPaths \X P1s \X P2s \X Iterations \X seeds}
Masks(seeds) == {t[1] : t \in MaskTriples(seeds)}
\* the inpainted images a caller holds and may save: each mask inpainted
\* with the seed it was made with
InpaintedImages(seeds) ==
    {inpaint_mask(Resize(Open(p)), get_mask(compose("cpu"), NoMasks, p, p1, p2, seed, n).ret[1],
                  p2, seed) :
        <<p, p1, p2, n, seed>> \in ExistingPaths \X P1s \X P2s \X Iterations \X seeds}

Call(op, args, status, ret, calls, engine) ==
    [op |-> op, args |-> args, status |-> status, ret |-> ret, calls |-> calls,
     engine |-> engine]

\* the record of a save_mask: its outcome, the triple it was given, the steps
\* it took and, when it was interrupted, whether the directory held none of
\* the three mask files when it started
NeverSaved == [status |-> "none", triple |-> <<>>, done |-> 0, fresh |-> FALSE]
SaveRecord(f, workdir, r, mask, rough_mask, blended_mask) ==
    [status |-> r.status, triple |-> <<mask, rough_mask, blended_mask>>, done |-> r.done,
     fresh |-> /\ r.status = Interrupted
               /\ \A i \in 1..Len(MaskFiles) : ~file_exists(f, workdir, MaskFiles[i])]

\* ------------------------------------------------------------ actions

Init ==
    /\ obj = NoObject
    /\ mg = NoMasks
    /\ fs = [d \in WorkDirs |-> [name \in FileNames |-> Absent]]
    /\ faults = 0
    /\ saved = [d \in WorkDirs |-> NeverSaved]
    /\ last = Call("import", <<>>, OK, NoReturn, NoCalls, NoEngine)

\* DiffEdit(...): a new object with a new mask generator
Construct(tokenizer, text_encoder, vae, unet, inpainting, scheduler, torch_device) ==
    LET r == DiffEdit_init(tokenizer, text_encoder, vae, unet, inpainting, scheduler,
                           torch_device)
    IN  /\ obj = NoObject
        /\ obj' = r.obj
        /\ mg' = NoMasks
        /\ last' = Call("__init__",
                        <<tokenizer, text_encoder, vae, unet, inpainting, scheduler, torch_device>>,
                        r.status, NoReturn, NoCalls, NoEngine)
        /\ UNCHANGED <<fs, faults, saved>>

To(device) ==
    LET r == to(obj, device)
    IN  /\ obj # NoObject
        /\ obj' = r.obj
        /\ last' = Call("to", <<device>>, r.status, NoReturn, NoCalls, NoEngine)
        /\ UNCHANGED <<mg, fs, faults, saved>>

CreateMask(im_path, p1, p2, n, seed) ==
    LET r == create_mask(obj, mg, im_path, p1, p2, n, seed)
    IN  /\ obj # NoObject
        /\ mg' = r.mg
        /\ last' = Call("create_mask", <<im_path, p1, p2, n, seed>>, r.status, r.ret, r.calls,
                        NoEngine)
        /\ UNCHANGED <<obj, fs, faults, saved>>

SaveMask(mask, rough_mask, blended_mask, im_path, workdir, cut) ==
    LET r == save_mask(fs, mask, rough_mask, blended_mask, im_path, workdir, cut)
    IN  /\ obj # NoObject
        /\ cut < StepsOf(SavedFiles) => faults < MaxFaults
        /\ fs' = r.fs
        /\ faults' = IF cut < StepsOf(SavedFiles) THEN faults + 1 ELSE faults
        /\ saved' = [saved EXCEPT ![workdir] =
                        SaveRecord(fs, workdir, r, mask, rough_mask, blended_mask)]
        /\ last' = Call("save_mask", <<mask, rough_mask, blended_mask, im_path, workdir>>,
                        r.status, NoReturn, NoCalls, NoEngine)
        /\ UNCHANGED <<obj, mg>>

SaveInpaintedImage(inpainted_image, workdir, cut) ==
    LET r == save_inpainted_image(fs, inpainted_image, workdir, cut)
    IN  /\ obj # NoObject
        /\ cut < StepsOf(<<InpaintedFile>>) => faults < MaxFaults
        /\ fs' = r.fs
        /\ faults' = IF cut < StepsOf(<<InpaintedFile>>) THEN faults + 1 ELSE faults
        /\ last' = Call("save_inpainted_image", <<inpainted_image, workdir>>, r.status,
                        NoReturn, NoCalls, NoEngine)
        /\ UNCHANGED <<obj, mg, saved>>

LoadMask(workdir) ==
    LET r == load_mask(fs, workdir)
    IN  /\ obj # NoObject
        /\ last' = Call("load_mask", <<workdir>>, r.status, r.ret, NoCalls, NoEngine)
        /\ UNCHANGED <<obj, mg, fs, faults, saved>>

InpaintMaskWithPrompt(im_path, mask, p2, seed) ==
    LET r == inpaint_mask_with_prompt(im_path, mask, p2, seed)
    IN  /\ obj # NoObject
        /\ last' = Call("inpaint_mask_with_prompt", <<im_path, mask, p2, seed>>, r.status,
                        r.ret, r.calls, r.engine)
        /\ UNCHANGED <<obj, mg, fs, faults, saved>>

DemoDiffedit(im_path, p1, p2, n, seed, cut1, cut2) ==
    LET r == demo_diffedit(obj, mg, fs, im_path, p1, p2, n, seed, cut1, cut2)
        stopped == cut1 < StepsOf(SavedFiles) \/ cut2 < StepsOf(<<InpaintedFile>>)
    IN  /\ obj # NoObject
        /\ stopped => faults < MaxFaults
        \* one stop at most: a stopped save_mask ends the call
        /\ cut1 < StepsOf(SavedFiles) => cut2 = StepsOf(<<InpaintedFile>>)
        /\ mg' = r.mg
        /\ fs' = r.fs
        /\ faults' = IF stopped THEN faults + 1 ELSE faults
        /\ saved' = IF r.saving
                     THEN [saved EXCEPT !["./"] =
                             SaveRecord(fs, "./", r.save, r.save.triple[1], r.save.triple[2],
                                        r.save.triple[3])]
                     ELSE saved
        /\ last' = Call("demo_diffedit", <<im_path, p1, p2, n, seed>>, r.status, r.ret, r.calls,
                        r.engine)
        /\ UNCHANGED obj

\* the process ends (or is killed) and the module is imported again
Exit ==
    /\ obj # NoObject
    /\ obj' = NoObject
    /\ mg' = NoMasks
    /\ last' = Call("import", <<>>, OK, NoReturn, NoCalls, NoEngine)
    /\ UNCHANGED <<fs, faults, saved>>

\* ------------------------------------------------------------ specifications

\* where a write may stop: anywhere while interruptions are left, else nowhere
Cuts(files, interruptible) == IF interruptible THEN 0..StepsOf(files) ELSE {StepsOf(files)}

\* the facade's operations, called with working directories from `workdirs`
Operations(workdirs, seeds, interruptible) ==
    \/ \E a \in ImagePaths \X P1s \X P2s \X Iterations \X seeds :
           CreateMask(a[1], a[2], a[3], a[4], a[5])
    \/ \E t \in MaskTriples(seeds), p \in ImagePaths, w \in workdirs,
          cut \in Cuts(SavedFiles, interruptible) :
           SaveMask(t[1], t[2], t[3], p, w, cut)
    \/ \E i \in InpaintedImages(seeds), w \in workdirs, cut \in Cuts(<<InpaintedFile>>, interruptible) :
           SaveInpaintedImage(i, w, cut)
    \/ \E w \in workdirs : LoadMask(w)
    \/ \E a \in ImagePaths \X Masks(seeds) \X P2s \X seeds :
           InpaintMaskWithPrompt(a[1], a[2], a[3], a[4])
    \/ \E a \in ImagePaths \X P1s \X P2s \X Iterations \X seeds,
          cut1 \in Cuts(SavedFiles, interruptible),
          cut2 \in Cuts(<<InpaintedFile>>, interruptible) :
           DemoDiffedit(a[1], a[2], a[3], a[4], a[5], cut1, cut2)
    \/ Exit

\* a session built by the composer, which loads all six components, working
\* in two directories; no write is interrupted
Next ==
    \/ Construct(Plain, Loaded, Loaded, Loaded, Loaded, Plain, "cpu")
    \/ To("cpu")
    \/ Operations(WorkDirs, Seeds, FALSE)

Spec == Init /\ [][Next]_vars

\* the same session working in "./" with the seed of the end-to-end scenario,
\* where up to MaxFaults writes are interrupted (a crash, a full disk)
NextFaults ==
    \/ Construct(Plain, Loaded, Loaded, Loaded, Loaded, Plain, "cpu")
    \/ To("cpu")
    \/ Operations({"./"}, {42}, TRUE)

SpecFaults == Init /\ [][NextFaults]_vars

\* sessions built directly, with any of the components left None, and moved
\* between devices
Components(c) == {None, c}
NextSession ==
    \/ \E tokenizer \in Components(Plain), text_encoder \in Components(Loaded),
          vae \in Components(Loaded), unet \in Components(Loaded),
          inpainting \in Components(Loaded), scheduler \in Components(Plain),
          torch_device \in Devices \cup {None} :
           Construct(tokenizer, text_encoder, vae, unet, inpainting, scheduler, torch_device)
    \/ \E device \in Devices : To(device)
    \/ Operations({"./"}, {42}, FALSE)

SpecSession == Init /\ [][NextSession]_vars

\* ------------------------------------------------------------ claims

HasFile(d, name) == file_exists(fs, d, name)
MissingMaskFile(f, d) == \E i \in 1..Len(MaskFiles) : ~file_exists(f, d, MaskFiles[i])
MissingSavedFile(f, d) == \E i \in 1..Len(SavedFiles) : ~file_exists(f, d, SavedFiles[i])
CompleteMaskFiles(f, d) == \A i \in 1..Len(MaskFiles) : IsBitmap(f[d][MaskFiles[i]])

\* C1: a create_mask whose image path does not exist raises the path error,
\* returns nothing, calls neither the image processor nor the mask generator,
\* and leaves every file of every directory (and the generator) as it was.
C1_CreateMaskMissingPath ==
    [][(last'.op = "create_mask" /\ ~exists(last'.args[1]))
        => /\ last'.status = PathNotFound
           /\ last'.ret = NoReturn
           /\ last'.calls = NoCalls
           /\ fs' = fs
           /\ mg' = mg]_vars

C1_Witness ==
    /\ last.op = "create_mask"
    /\ last.status = PathNotFound
    /\ HasFile("./", "mask.bmp")
    /\ HasFile("out", InpaintedFile)

\* C2 as stated (its last clause): load_mask returns the three images only
\* when the directory holds all four files that save_mask writes.
C2_Original ==
    (last.op = "load_mask" /\ last.status = OK) => ~MissingSavedFile(fs, last.args[1])

\* C2 amended: load_mask raises the artifacts error exactly when one of
\* mask.bmp, rough_mask.bmp, blended_mask.bmp is missing; original_image.bmp
\* is not asked for.  With the three present it returns the three images in
\* this order when each is a complete bitmap, and fails to read one otherwise.
C2_LoadNeedsTheMaskFiles ==
    last.op = "load_mask"
        => LET d == last.args[1]
           IN  /\ MissingMaskFile(fs, d) <=> last.status = ArtifactsNotFound
               /\ CompleteMaskFiles(fs, d) <=> last.status = OK
               /\ last.status = OK
                    => last.ret = <<Dec(fs[d]["mask.bmp"]), Dec(fs[d]["rough_mask.bmp"]),
                                    Dec(fs[d]["blended_mask.bmp"])>>
               /\ last.status # OK => last.ret = NoReturn

C2_Witness ==
    /\ last.op = "load_mask"
    /\ last.status = OK
    /\ ~HasFile(last.args[1], "original_image.bmp")

\* C3: a load_mask of a directory whose most recent save_mask completed
\* returns the triple that save_mask was given, slot by slot.
C3_SaveLoadRoundTrip ==
    (last.op = "load_mask" /\ saved[last.args[1]].status = OK)
        => (last.status = OK /\ last.ret = saved[last.args[1]].triple)

\* a load from "out" after a save there, while "./" holds another mask
C3_Witness ==
    /\ last.op = "load_mask"
    /\ last.args[1] = "out"
    /\ saved["out"].status = OK
    /\ last.status = OK
    /\ saved["./"].status = OK
    /\ saved["./"].triple[1] # last.ret[1]
    /\ last.ret[1] # last.ret[2]

\* C4 as stated: inpaint_mask_with_prompt completes only with a persisted
\* mask, one that some working directory holds as its mask.bmp.
C4_Original ==
    (last.op = "inpaint_mask_with_prompt" /\ last.status = OK)
        => \E d \in WorkDirs :
              IsBitmap(fs[d]["mask.bmp"]) /\ Dec(fs[d]["mask.bmp"]) = last.args[2]

\* what a generator that never ran before makes of the arguments
C5_Expected(im_path, p1, p2, n, seed) ==
    LET im == Resize(Open(im_path))
        g == calc_diffedit_mask(img2latent(im), p1, p2, n, seed)
    IN  <<g.processed_mask, g.rough_mask, get_blended_mask(im, g.processed_mask)>>

C9_InpaintSideEffects ==
    [][last'.op = "inpaint_mask_with_prompt"
        => /\ fs' = fs
           /\ mg' = mg
           /\ ~exists(last'.args[1])
                => /\ last'.status = PathNotFound
                   /\ last'.engine = NoEngine
                   /\ last'.calls = NoCalls
                   /\ last'.ret = NoReturn
           /\ exists(last'.args[1])
                => /\ last'.status = OK
                   /\ last'.engine[2] = last'.args[2]
                   /\ last'.ret = inpaint_mask(Resize(Open(last'.args[1])), last'.args[2],
                                               last'.args[3], last'.args[4])]_vars

C9_Witness ==
    /\ last.op = "inpaint_mask_with_prompt"
    /\ last.status = PathNotFound
    /\ HasFile("./", "mask.bmp")
    /\ ~HasFile("./", InpaintedFile)

DemoOrder ==
    <<"create_mask", "img2latent", "calc_diffedit_mask", "get_blended_mask", "save_mask",
      "load_mask", "inpaint_mask_with_prompt", "inpaint_mask", "save_inpainted_image">>
IsPrefix(s, t) == Len(s) <= Len(t) /\ SubSeq(t, 1, Len(s)) = s
Called(name, calls) == \E k \in 1..Len(calls) : calls[k] = name

\* C6: demo_diffedit with a path that does not exist raises the path error
\* before any step runs and changes nothing.  Otherwise its steps run in the
\* order create_mask, save_mask, load_mask, inpaint_mask_with_prompt,
\* save_inpainted_image, each only after the one before completed; the engine
\* is given the mask read back from the mask.bmp this call's save_mask wrote;
\* on success the five files are in "./" and the list returned is the resized
\* original, the blended mask and the inpainted image.
C6_DemoChain ==
    [][last'.op = "demo_diffedit"
        => LET im_path == last'.args[1]
               im == Resize(Open(im_path))
               m == C5_Expected(im_path, last'.args[2], last'.args[3], last'.args[4],
                                last'.args[5])
               inpainted == inpaint_mask(im, m[1], last'.args[3], last'.args[5])
               here == fs'["./"]
           IN  /\ ~exists(im_path)
                    => /\ last'.status = PathNotFound
                       /\ last'.calls = NoCalls
                       /\ last'.ret = NoReturn
                       /\ fs' = fs
                       /\ mg' = mg
               /\ exists(im_path)
                    => /\ IsPrefix(last'.calls, DemoOrder)
                       /\ Called("create_mask", last'.calls)
               /\ Called("load_mask", last'.calls)
                    => /\ saved'["./"].status = OK
                       /\ saved'["./"].triple = m
                       /\ \A k \in 1..Len(MaskFiles) : here[MaskFiles[k]] = Enc(m[k])
                       /\ here["original_image.bmp"] = Enc(im)
               /\ Called("inpaint_mask", last'.calls)
                    => last'.engine = <<im, Dec(here["mask.bmp"]), last'.args[3], last'.args[5]>>
               /\ last'.status = OK
                    => /\ last'.calls = DemoOrder
                       /\ \A name \in FileNames : IsBitmap(here[name])
                       /\ here[InpaintedFile] = Enc(inpainted)
                       /\ last'.ret = <<im, m[3], inpainted>>
               /\ last'.status # OK
                    => last'.ret = NoReturn]_vars

\* a demo_diffedit that completed after an earlier write was interrupted
C6_Witness ==
    /\ last.op = "demo_diffedit"
    /\ last.status = OK
    /\ faults > 0
    /\ Len(last.ret) = 3

\* C7 as stated: an object whose construction completed has all six
\* components non-None.
C7_Original ==
    obj # NoObject
        => /\ obj.tokenizer # None
           /\ obj.text_encoder # None
           /\ obj.vae # None
           /\ obj.unet # None
           /\ obj.inpainting # None
           /\ obj.scheduler # None

\* C7 amended: an object whose construction completed has text_encoder, vae,
\* unet and inpainting non-None, and keeps them so through every operation,
\* to(device) included; tokenizer and scheduler are kept as passed and may be
\* None.  A construction lacking one of the four moved components raises
\* and yields no object; one lacking only tokenizer or scheduler completes.
C7_MovedComponentsPresent ==
    /\ obj # NoObject
        => /\ obj.text_encoder # None
           /\ obj.vae # None
           /\ obj.unet # None
           /\ obj.inpainting # None
    /\ last.op = "__init__"
        => /\ last.status = OK <=> (\A k \in 2..5 : last.args[k] # None)
           /\ last.status # OK => obj = NoObject /\ last.status = AttributeError
           /\ last.status = OK
                => /\ obj # NoObject
                   /\ obj.tokenizer = last.args[1]
                   /\ obj.scheduler = last.args[6]

\* an object built without tokenizer and scheduler, moved to another device
C7_Witness ==
    /\ obj # NoObject
    /\ obj.tokenizer = None
    /\ obj.scheduler = None
    /\ last.op = "to"
    /\ last.status = OK
    /\ obj.vae = "cuda"

\* C8 as stated: a load_mask of a directory whose most recent save_mask did
\* not complete raises the artifacts error.
C8_Original ==
    (last.op = "load_mask" /\ saved[last.args[1]].status \notin {"none", OK})
        => last.status = ArtifactsNotFound

\* C8 amended: after a save_mask that stopped before blended_mask.bmp was
\* opened, in a directory that held none of the three mask files, load_mask
\* raises the artifacts error; after one that stopped with blended_mask.bmp
\* opened and still empty, load_mask fails reading that image; after one that
\* stopped or failed at original_image.bmp (the source image missing
\* included), the three masks are complete and load_mask returns them.
C8_LoadAfterFailedSave ==
    last.op = "load_mask"
        => LET s == saved[last.args[1]]
           IN  /\ (s.status = Interrupted /\ s.fresh /\ s.done < 5)
                    => (last.status = ArtifactsNotFound /\ last.ret = NoReturn)
               /\ (s.status = Interrupted /\ s.done = 5)
                    => (last.status = ImageError /\ last.ret = NoReturn)
               /\ (s.status = SourceNotFound \/ (s.status = Interrupted /\ s.done >= 6))
                    => (last.status = OK /\ last.ret = s.triple)

\* a load_mask that returns the masks of a save_mask that could not open its
\* source image
C8_Witness ==
    /\ last.op = "load_mask"
    /\ last.status = OK
    /\ saved[last.args[1]].status = SourceNotFound
    /\ fs[last.args[1]]["original_image.bmp"] = Truncated

FilesOf(files) == {files[k] : k \in 1..Len(files)}
\* the files that differ between two states of the filesystem
Touched(f, g) == {dn \in WorkDirs \X FileNames : f[dn[1]][dn[2]] # g[dn[1]][dn[2]]}

\* C10: no operation removes a file; save_mask changes only the four files
\* it writes, in the directory it is given; save_inpainted_image changes only
\* inpainted_image.bmp there; demo_diffedit changes only files of "./"; every
\* other operation leaves the filesystem as it was.
C10_OnlyOwnFiles ==
    [][/\ \A d \in WorkDirs, name \in FileNames :
              file_exists(fs, d, name) => file_exists(fs', d, name)
       /\ last'.op = "save_mask"
            => Touched(fs, fs') \subseteq {last'.args[5]} \X FilesOf(SavedFiles)
       /\ last'.op = "save_inpainted_image"
            => Touched(fs, fs') \subseteq {last'.args[2]} \X {InpaintedFile}
       /\ last'.op = "demo_diffedit"
            => Touched(fs, fs') \subseteq {"./"} \X FileNames
       /\ last'.op \notin {"save_mask", "save_inpainted_image", "demo_diffedit"}
            => fs' = fs]_vars

\* a save_mask into "out" that replaced the masks there, while "./" holds
\* other masks and both directories hold an inpainted image
C10_Witness ==
    /\ last.op = "save_mask"
    /\ last.status = OK
    /\ last.args[5] = "out"
    /\ HasFile("out", InpaintedFile)
    /\ HasFile("./", InpaintedFile)
    /\ IsBitmap(fs["./"]["mask.bmp"])
    /\ fs["./"]["mask.bmp"] # fs["out"]["mask.bmp"]

====
